---- MODULE Spec2Model ----
(***************************************************************************)
(* Desired-state reconciliation of the two Ansible modules fusion_volume   *)
(* and fusion_se.  One behaviour is one invocation of one module: Init     *)
(* fixes the module, its parameters and the remote system; the actions are *)
(* the steps of main() and of the create/update/delete functions.          *)
(***************************************************************************)
EXTENDS Integers, Sequences, FiniteSets, TLC

VARIABLES mod, params, fault, remote, remote0, volume, branch, calls, pc, cur,
          new, changed, outcome

vars == <<mod, params, fault, remote, remote0, volume, branch, calls, pc, cur,
          new, changed, outcome>>

(* ------------------------------ bounds --------------------------------- *)

\* longest host_access_policies list an invocation supplies
MaxHaps == 2
\* largest numeric part of a size string ("1K", "2K", "1M", "2M")
MaxSizeNum == 2

(* ------------------------- values and the remote ------------------------ *)

\* Python None for a str parameter (falsy, like the empty string)
None == "None"
Given(x) == x # None

\* a size string "<num><unit>"; NoSize is size=None
SizeStr(n, u) == [num |-> n, unit |-> u]
NoSize == [num |-> 0, unit |-> "None"]
SizeUnits == {"K", "M"}
UnitFactor(u) == IF u = "K" THEN 1024 ELSE 1048576

\* parse_number_with_suffix: numeric value times the base-1024 unit factor
parse_number_with_suffix(s) == s.num * UnitFactor(s.unit)

\* the resources that exist in the remote system besides the target
StorageClasses == {"sc1", "sc2"}
size_limit(sc) == IF sc = "sc1" THEN 1048576 ELSE 1024
PlacementGroups == {"pg1", "pg2"}
ProtectionPolicies == {"pp1", "pp2"}
HostAccessPolicies == {"a", "b", "c"}
\* names of the other volumes of the tenant space
OtherVolumes == {"bar"}
AvailabilityZones == {"az1"}
NetworkInterfaceGroups == {"subnet-0"}
\* address strings is_valid_network accepts
ValidNetworks == {"10.21.200.0/24"}

\* the target resource: a Volume or a StorageEndpoint, or absence
NoResource ==
    [exists |-> FALSE, size |-> 0, host_access_policies |-> <<>>,
     placement_group |-> None, protection_policy |-> None,
     storage_class |-> None, display_name |-> None,
     addresses |-> <<>>, gateway |-> None, network_interface_groups |-> <<>>]

Vol(sz, haps, pg, pp, sc, dn) ==
    [NoResource EXCEPT !.exists = TRUE, !.size = sz, !.host_access_policies = haps,
                       !.placement_group = pg, !.protection_policy = pp,
                       !.storage_class = sc, !.display_name = dn]

Se(dn, addrs, gw, nifgs) ==
    [NoResource EXCEPT !.exists = TRUE, !.display_name = dn, !.addresses = addrs,
                       !.gateway = gw, !.network_interface_groups = nifgs]

(* ----------------------------- remote calls ----------------------------- *)

\* one entry of the log of remote calls, in issue order
Read(api, arg, ok) ==
    [kind |-> "read", api |-> api, field |-> arg, value |-> <<>>, ok |-> ok]
Mutate(api, field, value, ok) ==
    [kind |-> "mutate", api |-> api, field |-> field, value |-> <<value>>, ok |-> ok]
Await(ok) ==
    [kind |-> "await", api |-> "await_operation", field |-> None, value |-> <<>>, ok |-> ok]

\* what can go wrong with the lookups of an invocation for a reason other
\* than "not found" (transport, authentication, server): nothing, the
\* lookups of volumes / storage endpoints, or the lookups of the dependencies
Faults == {"none", "target", "dependency"}

IsMutate(c) == c.kind = "mutate"
Mutations == SelectSeq(calls, IsMutate)

\* current_vol / new_vol of update_volume: the six fields of the volume, and
\* the key "protection_group" the code adds to new_vol (None: key not set)
VolDict(v) ==
    [size |-> v.size, host_access_policies |-> v.host_access_policies,
     placement_group |-> v.placement_group,
     protection_policy |-> v.protection_policy,
     storage_class |-> v.storage_class, display_name |-> v.display_name,
     protection_group |-> None]
NoDict == VolDict(NoResource)

(* ------------------------------ outcomes -------------------------------- *)

Running == [status |-> "running", changed |-> FALSE, msg |-> ""]
\* module.exit_json(changed=c)
exit_json(c) == [status |-> "ok", changed |-> c, msg |-> ""]
\* module.fail_json(msg=m)
fail_json(m) == [status |-> "failed", changed |-> FALSE, msg |-> m]
\* an exception nothing catches: the module dies with a traceback
Crashed(m) == [status |-> "crashed", changed |-> FALSE, msg |-> m]

(* ------------------------------ parameters ------------------------------ *)

\* all sequences over S of length at most n
RECURSIVE SeqsUpTo(_, _)
SeqsUpTo(S, n) ==
    IF n = 0 THEN {<<>>}
    ELSE LET shorter == SeqsUpTo(S, n - 1)
         IN  shorter \cup {Append(q, x) : q \in shorter, x \in S}

\* module.params of fusion_volume.  A list parameter that is None is
\* written <<>>: the code only ever tests such a parameter for truth.
VolumeParams ==
    [state : {"present", "absent"},
     check_mode : BOOLEAN,
     display_name : {None, "d1", "d2"},
     rename : {None, "bar", "baz"},
     placement_group : {None, "pg1", "pg2", "pgX"},
     storage_class : {None, "sc1", "sc2", "scX"},
     protection_policy : {None, "pp1", "pp2", "ppX"},
     host_access_policies : SeqsUpTo({"b", "c"}, MaxHaps) \cup {<<"x">>},
     size : {NoSize} \cup {SizeStr(n, u) : n \in 1..MaxSizeNum, u \in SizeUnits},
     availability_zone : {None},
     addresses : {<<>>},
     gateway : {None},
     network_interface_groups : {<<>>}]

\* module.params of fusion_se
SeParams ==
    [state : {"present", "absent"},
     check_mode : BOOLEAN,
     display_name : {None, "d1", "d2"},
     rename : {None},
     placement_group : {None},
     storage_class : {None},
     protection_policy : {None},
     host_access_policies : {<<>>},
     size : {NoSize},
     availability_zone : {"az1", "azX"},
     addresses : {<<>>, <<"10.21.200.0/24">>, <<"not-a-network">>,
                  <<"10.21.200.0/24", "not-a-network">>},
     gateway : {None, "10.21.200.1"},
     network_interface_groups : {<<>>, <<"subnet-0">>, <<"subnet-X">>,
                                 <<"subnet-0", "subnet-X">>}]

\* the volumes the remote system can hold under the name of the invocation:
\* a volume never exceeds the size limit of its storage class
ObservedVolumes ==
    {Vol(sz, haps, "pg1", "pp1", sc, "d1") :
        sz \in {1024, 1048576},
        haps \in {<<>>, <<"a", "b">>},
        sc \in StorageClasses}

RemoteVolumes == {NoResource} \cup {v \in ObservedVolumes : v.size <= size_limit(v.storage_class)}
\* a storage endpoint exists only in an availability zone that exists
RemoteSes(az) ==
    {NoResource} \cup
        (IF az \in AvailabilityZones
         THEN {Se("d1", <<"10.21.200.0/24">>, "10.21.200.1", <<"subnet-0">>)}
         ELSE {})

Start ==
    /\ mod \in {"volume", "se"}
    /\ params \in IF mod = "volume" THEN VolumeParams ELSE SeParams
    /\ remote \in IF mod = "volume" THEN RemoteVolumes
                 ELSE RemoteSes(params.availability_zone)
    /\ remote0 = remote
    /\ volume = NoResource
    /\ branch = "none"
    /\ calls = <<>>
    /\ pc = "main"
    /\ cur = NoDict
    /\ new = NoDict
    /\ changed = FALSE
    /\ outcome = Running

\* an invocation all of whose lookups reach the remote system
Init == Start /\ fault = "none"
\* an invocation whose lookups may fail
InitFault == Start /\ fault \in Faults

(* ------------------------- fusion_volume: main -------------------------- *)

\* one validation step of main: unless an earlier step failed, and if cond
\* holds, issue the reads and fail with msg when bad
Check(acc, cond, reads, bad, msg) ==
    IF acc.msg # "" \/ ~cond THEN acc
    ELSE [log |-> acc.log \o reads, msg |-> IF bad THEN msg ELSE ""]

\* names get_volume finds in the tenant space
VolumeNames == OtherVolumes \cup (IF remote.exists THEN {"foo"} ELSE {})

\* required_if of the AnsibleModule
required_if_missing ==
    params.state = "present"
        /\ (params.storage_class = None \/ params.placement_group = None)

\* every getter turns any ApiException into None / False
get_volume == IF remote.exists /\ fault # "target" THEN remote ELSE NoResource
\* slip: the target is never found
check_target_volume_slip == FALSE
check_target_volume == params.rename \in VolumeNames /\ fault # "target"
\* slip: a lookup that raised is taken for a storage class
get_sc_slip == TRUE
get_sc == params.storage_class \in StorageClasses /\ fault # "dependency"
get_pg == params.placement_group \in PlacementGroups /\ fault # "dependency"
get_pp == params.protection_policy \in ProtectionPolicies /\ fault # "dependency"
\* list_host_access_policies is called outside any try
HapListError == "ApiException in list_host_access_policies"
check_host_access_policies ==
    {params.host_access_policies[i] : i \in DOMAIN params.host_access_policies}
        \subseteq HostAccessPolicies

\* lines 564-598 of main: locate the volume, then validate the parameters
volume_validation ==
    LET s0 == [log |-> <<Read("get_volume", "foo", get_volume.exists)>>, msg |-> ""]
        s1 == Check(s0, Given(params.rename),
                    <<Read("get_volume", params.rename, check_target_volume)>>,
                    check_target_volume, "Target volume name already exists")
        s2 == Check(s1, ~get_volume.exists, <<>>,
                    ~(Given(params.storage_class) /\ Given(params.placement_group)),
                    "storage_class and placement_group are required when creating a new volume")
        s3 == Check(s2, params.host_access_policies # <<>>,
                    <<Read("list_host_access_policies", None, fault # "dependency")>>,
                    fault = "dependency" \/ ~check_host_access_policies,
                    IF fault = "dependency" THEN HapListError
                    ELSE "At least one of the specified host access policies does not currently exist")
        s4 == Check(s3, Given(params.storage_class),
                    <<Read("get_storage_class", params.storage_class, get_sc)>>,
                    ~get_sc, "Storage Class does not exist")
        s5 == Check(s4, Given(params.placement_group),
                    <<Read("get_placement_group", params.placement_group, get_pg)>>,
                    ~get_pg, "Placement Group does not exist")
        s6 == Check(s5, Given(params.protection_policy),
                    <<Read("get_protection_policy", params.protection_policy, get_pp)>>,
                    ~get_pp, "Protection Policy does not exist")
    IN  s6

\* main up to the dispatch: argument spec, get_volume and the checks
volume_main ==
    /\ mod = "volume" /\ pc = "main"
    /\ IF required_if_missing
       THEN /\ outcome' = fail_json("state is present but all of the following are missing")
            /\ pc' = "done"
            /\ UNCHANGED <<calls, volume>>
       ELSE LET v == volume_validation
            IN  /\ calls' = calls \o v.log
                /\ volume' = get_volume
                /\ IF v.msg = HapListError
                   THEN outcome' = Crashed(v.msg) /\ pc' = "done"
                   ELSE IF v.msg # ""
                   THEN outcome' = fail_json(v.msg) /\ pc' = "done"
                   ELSE outcome' = outcome /\ pc' = "dispatch"
    /\ UNCHANGED <<mod, params, fault, remote, remote0, branch, cur, new, changed>>

\* lines 600-618 of main: choose create, update, delete or nothing
\* (destroyed is always False, so the eradicate branch is never taken)
\* slip: the "not" in front of volume is lost
dispatch_create_slip ==
    params.state = "present" /\ volume.exists /\ params.size # NoSize
dispatch_create ==
    params.state = "present" /\ ~volume.exists /\ params.size # NoSize
dispatch_update ==
    \/ params.state = "present" /\ volume.exists
    \/ params.state = "absent" /\ volume.exists /\ params.host_access_policies # <<>>
\* slip: the "not" in front of host_access_policies is lost
dispatch_delete_slip ==
    params.state = "absent" /\ volume.exists /\ params.host_access_policies # <<>>
dispatch_delete ==
    params.state = "absent" /\ volume.exists /\ params.host_access_policies = <<>>

volume_dispatch ==
    /\ mod = "volume" /\ pc = "dispatch"
    /\ IF dispatch_create
       THEN pc' = "create_volume" /\ branch' = "create" /\ outcome' = outcome
       ELSE IF dispatch_update
       THEN pc' = "update_volume" /\ branch' = "update" /\ outcome' = outcome
       ELSE IF dispatch_delete
       THEN pc' = "delete_volume" /\ branch' = "delete" /\ outcome' = outcome
       ELSE IF params.state = "present" /\ ~volume.exists /\ params.size = NoSize
       THEN /\ pc' = "done" /\ branch' = branch
            /\ outcome' = fail_json("Size must be specified to create a new volume")
       ELSE pc' = "done" /\ branch' = branch /\ outcome' = exit_json(FALSE)
    /\ UNCHANGED <<mod, params, fault, remote, remote0, volume, calls, cur, new, changed>>

(* ---------------------- fusion_volume: create_volume -------------------- *)

\* the results a mutating call can have: it can always raise, and it can
\* only succeed when the target is there (or, for a create, is not there)
Outcomes(api) ==
    IF remote.exists = (api \notin {"create_volume", "create_storage_endpoint"})
    THEN BOOLEAN ELSE {FALSE}

\* slip: the default is lost
default_display_name_slip == params.display_name
\* display_name defaults to name
default_display_name ==
    IF ~Given(params.display_name) THEN "foo" ELSE params.display_name

\* the VolumePost body
VolumePost ==
    [size |-> parse_number_with_suffix(params.size),
     storage_class |-> params.storage_class,
     placement_group |-> params.placement_group,
     name |-> "foo",
     display_name |-> default_display_name]

\* slip: the patch built at lines 276-279 is sent as well
create_volume_then_patch ==
    /\ mod = "volume" /\ pc = "create_volume"
    /\ pc' = "done"
    /\ LET size == parse_number_with_suffix(params.size)
           rd == Read("get_storage_class", params.storage_class, TRUE)
           patch == IF params.host_access_policies = <<>> THEN <<>>
                    ELSE <<Mutate("update_volume", "host_access_policies",
                                  params.host_access_policies, TRUE)>>
       IN  IF params.size = NoSize
           THEN /\ outcome' = fail_json("Size for a new volume must be specified")
                /\ UNCHANGED <<calls, remote, changed>>
           ELSE IF size > size_limit(params.storage_class)
           THEN /\ outcome' = fail_json("Requested size exceeds the storage class limit")
                /\ calls' = Append(calls, rd)
                /\ UNCHANGED <<remote, changed>>
           ELSE IF params.check_mode
           THEN /\ outcome' = exit_json(TRUE)
                /\ calls' = Append(calls, rd)
                /\ changed' = TRUE
                /\ UNCHANGED remote
           ELSE \E ok \in Outcomes("create_volume") :
                /\ changed' = TRUE
                /\ IF ok
                   THEN /\ calls' = calls \o <<rd, Mutate("create_volume", None, VolumePost, ok)>>
                                         \o patch
                        /\ remote' = Vol(size, params.host_access_policies,
                                         params.placement_group, None,
                                         params.storage_class, default_display_name)
                        /\ outcome' = exit_json(TRUE)
                   ELSE /\ calls' = calls \o <<rd, Mutate("create_volume", None, VolumePost, ok)>>
                        /\ remote' = remote
                        /\ outcome' = fail_json("Volume creation failed")
    /\ UNCHANGED <<mod, params, fault, remote0, volume, branch, cur, new>>

create_volume ==
    /\ mod = "volume" /\ pc = "create_volume"
    /\ pc' = "done"
    /\ LET size == parse_number_with_suffix(params.size)
           rd == Read("get_storage_class", params.storage_class, TRUE)
       IN  IF params.size = NoSize
           THEN /\ outcome' = fail_json("Size for a new volume must be specified")
                /\ UNCHANGED <<calls, remote, changed>>
           ELSE IF size > size_limit(params.storage_class)
           THEN /\ outcome' = fail_json("Requested size exceeds the storage class limit")
                /\ calls' = Append(calls, rd)
                /\ UNCHANGED <<remote, changed>>
           ELSE IF params.check_mode
           THEN /\ outcome' = exit_json(TRUE)
                /\ calls' = Append(calls, rd)
                /\ changed' = TRUE
                /\ UNCHANGED remote
           ELSE \E ok \in Outcomes("create_volume") :
                /\ calls' = calls \o <<rd, Mutate("create_volume", None, VolumePost, ok)>>
                /\ changed' = TRUE
                /\ IF ok
                   THEN /\ remote' = Vol(size, <<>>, params.placement_group, None,
                                         params.storage_class, default_display_name)
                        /\ outcome' = exit_json(TRUE)
                   ELSE /\ remote' = remote
                        /\ outcome' = fail_json("Volume creation failed")
    /\ UNCHANGED <<mod, params, fault, remote0, volume, branch, cur, new>>

(* ---------------------- fusion_volume: update_volume -------------------- *)

\* slip: any different size is taken over, not only a larger one
new_vol_slip(c) ==
    LET sizeDiffers == params.size # NoSize
                         /\ parse_number_with_suffix(params.size) # c.size
        n1 == IF Given(params.storage_class) /\ params.storage_class # c.storage_class
              THEN [c EXCEPT !.storage_class = params.storage_class] ELSE c
        n2 == IF sizeDiffers
              THEN [n1 EXCEPT !.size = parse_number_with_suffix(params.size)] ELSE n1
        n3 == IF Given(params.placement_group) /\ params.placement_group # c.placement_group
              THEN [n2 EXCEPT !.protection_group = params.placement_group] ELSE n2
        n4 == IF Given(params.protection_policy)
                   /\ params.protection_policy # c.protection_policy
              THEN [n3 EXCEPT !.protection_policy = params.protection_policy] ELSE n3
        n5 == IF Given(params.display_name) /\ params.display_name # c.display_name
              THEN [n4 EXCEPT !.display_name = params.display_name] ELSE n4
    IN  n5

\* lines 315-360: new_vol from current_vol and the parameters
new_vol(c) ==
    LET sizeDiffers == params.size # NoSize
                         /\ parse_number_with_suffix(params.size) # c.size
        n1 == IF Given(params.storage_class) /\ params.storage_class # c.storage_class
              THEN [c EXCEPT !.storage_class = params.storage_class] ELSE c
        n2 == IF sizeDiffers /\ parse_number_with_suffix(params.size) > c.size
              THEN [n1 EXCEPT !.size = parse_number_with_suffix(params.size)] ELSE n1
        n3 == IF Given(params.placement_group) /\ params.placement_group # c.placement_group
              THEN [n2 EXCEPT !.protection_group = params.placement_group] ELSE n2
        n4 == IF Given(params.protection_policy)
                   /\ params.protection_policy # c.protection_policy
              THEN [n3 EXCEPT !.protection_policy = params.protection_policy] ELSE n3
        n5 == IF Given(params.display_name) /\ params.display_name # c.display_name
              THEN [n4 EXCEPT !.display_name = params.display_name] ELSE n4
    IN  n5

\* lines 320-344: does update_volume read the storage class limit, and does
\* the size it compares exceed it
size_checked(c) ==
    \/ params.size # NoSize /\ parse_number_with_suffix(params.size) # c.size
    \/ params.size = NoSize /\ Given(params.storage_class)

size_exceeds(c, n) ==
    \/ /\ params.size # NoSize /\ parse_number_with_suffix(params.size) # c.size
       /\ n.size > size_limit(n.storage_class)
    \/ /\ params.size = NoSize /\ Given(params.storage_class)
       /\ c.size > size_limit(n.storage_class)

\* lines 284-366: fetch the volume again, compute the difference, validate
\* the size, and leave unless something is to be patched
update_volume ==
    /\ mod = "volume" /\ pc = "update_volume"
    /\ IF ~remote.exists
       THEN /\ calls' = Append(calls, Read("get_volume", "foo", FALSE))
            /\ outcome' = Crashed("ApiException in update_volume")
            /\ pc' = "done"
            /\ UNCHANGED <<cur, new>>
       ELSE LET c == VolDict(remote)
                n == new_vol(c)
                rd == IF size_checked(c)
                      THEN <<Read("get_storage_class", n.storage_class, TRUE)>>
                      ELSE <<>>
            IN  /\ calls' = calls \o <<Read("get_volume", "foo", TRUE)>> \o rd
                /\ cur' = c
                /\ new' = n
                /\ IF size_exceeds(c, n)
                   THEN /\ outcome' = fail_json("Volume size exceeds the storage class limit")
                        /\ pc' = "done"
                   ELSE IF (n # c \/ params.host_access_policies # <<>>)
                           /\ ~params.check_mode
                   THEN outcome' = outcome /\ pc' = "patch_display_name"
                   ELSE outcome' = exit_json(FALSE) /\ pc' = "done"
    /\ changed' = FALSE
    /\ UNCHANGED <<mod, params, fault, remote, remote0, volume, branch>>

\* slip: the except clause swallows the ApiException and goes on
patch_field_swallow(at, f, next, msg) ==
    /\ mod = "volume" /\ pc = at
    /\ IF new[f] # cur[f]
       THEN \E ok \in BOOLEAN :
            /\ calls' = Append(calls, Mutate("update_volume", f, new[f], ok))
            /\ remote' = IF ok THEN [remote EXCEPT ![f] = new[f]] ELSE remote
            /\ changed' = (changed \/ ok)
            /\ outcome' = outcome
            /\ pc' = next
       ELSE pc' = next /\ UNCHANGED <<calls, remote, changed, outcome>>
    /\ UNCHANGED <<mod, params, fault, remote0, volume, branch, cur, new>>

\* slip: "changed = True" is missing after the call
patch_field_unchanged(at, f, next, msg) ==
    /\ mod = "volume" /\ pc = at
    /\ IF new[f] # cur[f]
       THEN \E ok \in BOOLEAN :
            /\ calls' = Append(calls, Mutate("update_volume", f, new[f], ok))
            /\ changed' = changed
            /\ IF ok
               THEN /\ remote' = [remote EXCEPT ![f] = new[f]]
                    /\ outcome' = outcome
                    /\ pc' = next
               ELSE /\ outcome' = fail_json(msg)
                    /\ pc' = "done"
                    /\ remote' = remote
       ELSE pc' = next /\ UNCHANGED <<calls, remote, changed, outcome>>
    /\ UNCHANGED <<mod, params, fault, remote0, volume, branch, cur, new>>

\* one "if new_vol[f] != current_vol[f]: update_volume(VolumePatch(f=...))"
\* block: a failing call ends the invocation
patch_field(at, f, next, msg) ==
    /\ mod = "volume" /\ pc = at
    /\ IF new[f] # cur[f]
       THEN \E ok \in BOOLEAN :
            /\ calls' = Append(calls, Mutate("update_volume", f, new[f], ok))
            /\ IF ok
               THEN /\ remote' = [remote EXCEPT ![f] = new[f]]
                    /\ changed' = TRUE
                    /\ outcome' = outcome
                    /\ pc' = next
               ELSE /\ outcome' = fail_json(msg)
                    /\ pc' = "done"
                    /\ UNCHANGED <<remote, changed>>
       ELSE pc' = next /\ UNCHANGED <<calls, remote, changed, outcome>>
    /\ UNCHANGED <<mod, params, fault, remote0, volume, branch, cur, new>>

patch_display_name ==
    patch_field("patch_display_name", "display_name", "patch_storage_class",
                "Changing display_name failed")
patch_storage_class ==
    patch_field("patch_storage_class", "storage_class", "patch_size",
                "Changing storage_class failed")
patch_size ==
    patch_field("patch_size", "size", "patch_placement_group", "Changing size failed")
patch_placement_group ==
    patch_field("patch_placement_group", "placement_group", "patch_protection_policy",
                "Changing placement_group failed")
patch_protection_policy ==
    patch_field("patch_protection_policy", "protection_policy",
                "patch_host_access_policies", "Changing protection_policy failed")

\* list.remove(x): drop the first occurrence of x (x is in l)
RECURSIVE list_remove(_, _)
list_remove(l, x) ==
    IF Head(l) = x THEN Tail(l) ELSE <<Head(l)>> \o list_remove(Tail(l), x)

Elems(l) == {l[i] : i \in DOMAIN l}

\* slip: the list is passed on as it is
dedup_slip(l) == l
\* list(dict.fromkeys(l)): keep the first occurrence of every element
RECURSIVE dedup(_)
dedup(l) ==
    IF l = <<>> THEN <<>>
    ELSE LET init == dedup(SubSeq(l, 1, Len(l) - 1))
         IN  IF l[Len(l)] \in Elems(init) THEN init ELSE Append(init, l[Len(l)])

\* lines 452-457: the loop over the supplied host access policies; err is
\* the ValueError of removing a policy that is not in the list
RECURSIVE resolve_haps(_, _, _)
resolve_haps(l, hosts, state) ==
    IF hosts = <<>> THEN [list |-> l, err |-> FALSE]
    ELSE IF state = "absent"
    THEN IF l = <<>> THEN resolve_haps(l, Tail(hosts), state)
         ELSE IF Head(hosts) \in Elems(l)
         THEN resolve_haps(list_remove(l, Head(hosts)), Tail(hosts), state)
         ELSE [list |-> l, err |-> TRUE]
    ELSE resolve_haps(Append(l, Head(hosts)), Tail(hosts), state)

\* lines 449-474: the host access policies, then exit_json(changed)
patch_host_access_policies ==
    /\ mod = "volume" /\ pc = "patch_host_access_policies"
    /\ pc' = "done"
    /\ LET r == resolve_haps(new.host_access_policies, params.host_access_policies,
                             params.state)
           haps == dedup(r.list)
       IN  IF params.host_access_policies = <<>>
           THEN outcome' = exit_json(changed) /\ UNCHANGED <<calls, remote, changed, new>>
           ELSE IF r.err
           THEN /\ outcome' = Crashed("ValueError: list.remove(x): x not in list")
                /\ new' = [new EXCEPT !.host_access_policies = r.list]
                /\ UNCHANGED <<calls, remote, changed>>
           ELSE /\ new' = [new EXCEPT !.host_access_policies = haps]
                /\ IF haps # cur.host_access_policies
                   THEN \E ok \in BOOLEAN :
                        /\ calls' = Append(calls, Mutate("update_volume",
                                               "host_access_policies", haps, ok))
                        /\ IF ok
                           THEN /\ remote' = [remote EXCEPT !.host_access_policies = haps]
                                /\ changed' = TRUE
                                /\ outcome' = exit_json(TRUE)
                           ELSE /\ outcome' = fail_json("Changing host access policies failed")
                                /\ UNCHANGED <<remote, changed>>
                   ELSE outcome' = exit_json(changed) /\ UNCHANGED <<calls, remote, changed>>
    /\ UNCHANGED <<mod, params, fault, remote0, volume, branch, cur>>

(* ---------------------- fusion_volume: delete_volume -------------------- *)

\* slip: the check_mode guard is lost
delete_volume_unguarded ==
    /\ mod = "volume" /\ pc = "delete_volume"
    /\ pc' = "done"
    /\ changed' = TRUE
    /\ \E ok \in Outcomes("delete_volume") :
            /\ calls' = Append(calls, Mutate("delete_volume", None, "foo", ok))
            /\ IF ok
               THEN remote' = NoResource /\ outcome' = exit_json(TRUE)
               ELSE remote' = remote /\ outcome' = fail_json("Delete volume failed")
    /\ UNCHANGED <<mod, params, fault, remote0, volume, branch, cur, new>>

delete_volume ==
    /\ mod = "volume" /\ pc = "delete_volume"
    /\ pc' = "done"
    /\ changed' = TRUE
    /\ IF params.check_mode
       THEN outcome' = exit_json(TRUE) /\ UNCHANGED <<calls, remote>>
       ELSE \E ok \in Outcomes("delete_volume") :
            /\ calls' = Append(calls, Mutate("delete_volume", None, "foo", ok))
            /\ IF ok
               THEN remote' = NoResource /\ outcome' = exit_json(TRUE)
               ELSE remote' = remote /\ outcome' = fail_json("Delete volume failed")
    /\ UNCHANGED <<mod, params, fault, remote0, volume, branch, cur, new>>

(* ----------------------------- fusion_se -------------------------------- *)

get_az == params.availability_zone \in AvailabilityZones /\ fault # "dependency"
is_valid_network(a) == a \in ValidNetworks

\* get_nifg: look the groups up in order and stop at the first missing one
RECURSIVE nifg_reads(_)
nifg_reads(groups) ==
    IF groups = <<>> THEN <<>>
    ELSE IF Head(groups) \in NetworkInterfaceGroups /\ fault # "dependency"
    THEN <<Read("get_network_interface_group", Head(groups), TRUE)>>
             \o nifg_reads(Tail(groups))
    ELSE <<Read("get_network_interface_group", Head(groups), FALSE)>>

get_nifg ==
    /\ Elems(params.network_interface_groups) \subseteq NetworkInterfaceGroups
    /\ fault # "dependency"

get_se == IF remote.exists /\ fault # "target" THEN remote ELSE NoResource

\* lines 276-295 of main: validate the parameters, then locate the endpoint
se_validation ==
    LET s0 == [log |-> <<Read("get_availability_zone", params.availability_zone, get_az)>>,
               msg |-> IF get_az THEN "" ELSE "Availability Zone does not exist"]
        s1 == Check(s0, params.network_interface_groups # <<>>,
                    nifg_reads(params.network_interface_groups), ~get_nifg,
                    "Not all of the network interface groups exist in the specified AZ")
        s2 == Check(s1, params.addresses # <<>>, <<>>,
                    \E i \in DOMAIN params.addresses : ~is_valid_network(params.addresses[i]),
                    "not a valid address in CIDR notation")
        s3 == Check(s2, TRUE, <<Read("get_storage_endpoint", "foo", get_se.exists)>>,
                    FALSE, "")
    IN  s3

se_main ==
    /\ mod = "se" /\ pc = "main"
    /\ LET v == se_validation
       IN  /\ calls' = calls \o v.log
           /\ IF v.msg # ""
              THEN outcome' = fail_json(v.msg) /\ pc' = "done" /\ volume' = volume
              ELSE outcome' = outcome /\ pc' = "dispatch" /\ volume' = get_se
    /\ UNCHANGED <<mod, params, fault, remote, remote0, branch, cur, new, changed>>

\* slip: the test of addresses is lost
addresses_missing_slip == FALSE
\* fail_on_missing_params(["addresses"]) and "if not addresses"
addresses_missing == params.addresses = <<>>

\* lines 297-309 of main (volume holds sendp)
se_dispatch ==
    /\ mod = "se" /\ pc = "dispatch"
    /\ IF params.state = "present" /\ ~volume.exists
       THEN IF addresses_missing
            THEN /\ pc' = "done" /\ branch' = branch
                 /\ outcome' = fail_json("At least one entry in 'addresses' is required")
            ELSE pc' = "create_se" /\ branch' = "create" /\ outcome' = outcome
       ELSE IF params.state = "present" /\ volume.exists
       THEN pc' = "update_se" /\ branch' = "update" /\ outcome' = outcome
       ELSE IF params.state = "absent" /\ volume.exists
       THEN pc' = "delete_se" /\ branch' = "delete" /\ outcome' = outcome
       ELSE pc' = "done" /\ branch' = branch /\ outcome' = exit_json(FALSE)
    /\ UNCHANGED <<mod, params, fault, remote, remote0, volume, calls, cur, new, changed>>

\* the StorageEndpointPost body
StorageEndpointPost ==
    [discovery_interfaces |->
         [i \in DOMAIN params.addresses |->
             [address |-> params.addresses[i], gateway |-> params.gateway,
              network_interface_groups |-> params.network_interface_groups]],
     name |-> "foo",
     display_name |-> default_display_name]

\* a mutating call of fusion_se and the await_operation that follows it: the
\* call can raise, and the awaited operation can end in failure
se_call(api, field, value, done, failmsg) ==
    \E ok \in Outcomes(api), finished \in BOOLEAN :
        /\ calls' = IF ok
                    THEN calls \o <<Mutate(api, field, value, finished), Await(finished)>>
                    ELSE Append(calls, Mutate(api, field, value, FALSE))
        /\ IF ok /\ finished
           THEN remote' = done /\ outcome' = exit_json(TRUE)
           ELSE remote' = remote /\ outcome' = fail_json(failmsg)

create_se ==
    /\ mod = "se" /\ pc = "create_se"
    /\ pc' = "done"
    /\ changed' = TRUE
    /\ IF params.check_mode
       THEN outcome' = exit_json(TRUE) /\ UNCHANGED <<calls, remote>>
       ELSE se_call("create_storage_endpoint", None, StorageEndpointPost,
                    Se(default_display_name, params.addresses, params.gateway,
                       params.network_interface_groups),
                    "create_storage_endpoint failed")
    /\ UNCHANGED <<mod, params, fault, remote0, volume, branch, cur, new>>

delete_se ==
    /\ mod = "se" /\ pc = "delete_se"
    /\ pc' = "done"
    /\ changed' = TRUE
    /\ IF params.check_mode
       THEN outcome' = exit_json(TRUE) /\ UNCHANGED <<calls, remote>>
       ELSE se_call("delete_storage_endpoint", None, "foo", NoResource,
                    "delete_storage_endpoint failed")
    /\ UNCHANGED <<mod, params, fault, remote0, volume, branch, cur, new>>

\* patches of update_se: at most the display_name
se_patches ==
    IF Given(params.display_name) /\ params.display_name # volume.display_name
    THEN <<params.display_name>> ELSE <<>>

update_se ==
    /\ mod = "se" /\ pc = "update_se"
    /\ pc' = "done"
    /\ changed' = (Len(se_patches) # 0)
    /\ IF params.check_mode \/ se_patches = <<>>
       THEN outcome' = exit_json(Len(se_patches) # 0) /\ UNCHANGED <<calls, remote>>
       ELSE se_call("update_storage_endpoint", "display_name", se_patches[1],
                    [remote EXCEPT !.display_name = se_patches[1]],
                    "update_storage_endpoint failed")
    /\ UNCHANGED <<mod, params, fault, remote0, volume, branch, cur, new>>

Next ==
    \/ volume_main
    \/ volume_dispatch
    \/ create_volume
    \/ update_volume
    \/ patch_display_name
    \/ patch_storage_class
    \/ patch_size
    \/ patch_placement_group
    \/ patch_protection_policy
    \/ patch_host_access_policies
    \/ delete_volume
    \/ se_main
    \/ se_dispatch
    \/ create_se
    \/ update_se
    \/ delete_se

Spec == Init /\ [][Next]_vars

\* invocations whose lookups may fail for a reason other than "not found"
SpecFault == InitFault /\ [][Next]_vars

\* another client of the remote system deletes the target, or gives it
\* another display name, between the lookup in main and the function main
\* dispatches to
external_change ==
    /\ pc \in {"dispatch", "update_volume", "delete_volume", "update_se", "delete_se"}
    /\ remote.exists /\ remote = remote0
    /\ remote' \in {NoResource, [remote EXCEPT !.display_name = "d2"]}
    /\ UNCHANGED <<mod, params, fault, remote0, volume, branch, calls, pc, cur, new,
                   changed, outcome>>

NextConc ==
    \/ Next
    \/ external_change

\* invocations that run while another client changes the target
SpecConc == Init /\ [][NextConc]_vars

(* ======================= properties of an invocation ==================== *)

Done == pc = "done"
Absent0 == ~remote0.exists
Present0 == remote0.exists

CreateApis == {"create_volume", "create_storage_endpoint"}
UpdateApis == {"update_volume", "update_storage_endpoint"}
DeleteApis == {"delete_volume", "delete_storage_endpoint"}

\* every reference the invocation supplies names an existing resource
RefsExist ==
    IF mod = "volume"
    THEN /\ Elems(params.host_access_policies) \subseteq HostAccessPolicies
         /\ Given(params.storage_class) => params.storage_class \in StorageClasses
         /\ Given(params.placement_group) => params.placement_group \in PlacementGroups
         /\ Given(params.protection_policy)
               => params.protection_policy \in ProtectionPolicies
    ELSE /\ params.availability_zone \in AvailabilityZones
         /\ Elems(params.network_interface_groups) \subseteq NetworkInterfaceGroups

\* no other local validation error can arise: no rename is asked for and
\* every address is a network
LocallyValid ==
    /\ ~Given(params.rename)
    /\ Elems(params.addresses) \subseteq ValidNetworks

\* the invocation issued exactly one mutating call, of one of the apis, and
\* reports changed=true unless that very call failed
OneCall(apis) ==
    /\ Len(Mutations) = 1
    /\ Mutations[1].api \in apis
    /\ IF Mutations[1].ok THEN outcome = exit_json(TRUE) ELSE outcome.status = "failed"

\* C1: resource absent and state=absent: no mutating call, success with
\* changed=false, whatever optional parameters are supplied (stated here for
\* invocations whose supplied references all exist and are valid)
C1_AbsentAbsentIsNoop ==
    (Done /\ Absent0 /\ params.state = "absent" /\ RefsExist /\ LocallyValid)
        => (Mutations = <<>> /\ outcome = exit_json(FALSE))

C2_Pre ==
    /\ Absent0 /\ params.state = "present" /\ ~params.check_mode
    /\ RefsExist
    /\ IF mod = "volume"
       THEN /\ params.size # NoSize
            /\ Given(params.storage_class) /\ Given(params.placement_group)
            /\ parse_number_with_suffix(params.size) <= size_limit(params.storage_class)
       ELSE params.addresses # <<>>

\* C2 as claimed: resource absent, state=present, mandatory fields supplied,
\* references exist, size within the limit, no check mode: exactly one
\* create call, no other mutating call, changed=true
C2_CreateOnce_Original == (Done /\ C2_Pre) => OneCall(CreateApis)

\* C2 amended: the same, for invocations without another validation error
\* (no rename asked for, every address a valid network)
C2_CreateOnce == (Done /\ C2_Pre /\ LocallyValid) => OneCall(CreateApis)

C2_Witness ==
    /\ Done /\ C2_Pre /\ LocallyValid /\ mod = "volume"
    /\ Given(params.protection_policy) /\ params.host_access_policies # <<>>
    /\ Len(Mutations) = 1 /\ outcome = exit_json(TRUE) /\ remote.exists

\* every supplied field other than display_name equals the observed one
OthersSatisfied ==
    /\ ~Given(params.rename)
    /\ params.storage_class \in {None, remote0.storage_class}
    /\ params.placement_group \in {None, remote0.placement_group}
    /\ params.protection_policy \in {None, remote0.protection_policy}
    /\ params.size # NoSize => parse_number_with_suffix(params.size) = remote0.size
    /\ params.addresses \in {<<>>, remote0.addresses}
    /\ params.gateway \in {None, remote0.gateway}
    /\ params.network_interface_groups \in {<<>>, remote0.network_interface_groups}

C3_Pre ==
    /\ Present0 /\ params.state = "present" /\ ~params.check_mode
    /\ Given(params.display_name) /\ params.display_name # remote0.display_name
    /\ OthersSatisfied
    /\ Elems(params.host_access_policies) \subseteq Elems(remote0.host_access_policies)

\* C3: resource present, state=present, display_name the only supplied field
\* that differs, no check mode: exactly one patch call, carrying display_name
\* only, changed=true
C3_PatchDisplayNameOnly ==
    (Done /\ C3_Pre)
        => /\ OneCall(UpdateApis)
           /\ Mutations[1].field = "display_name"
           /\ Mutations[1].value = <<params.display_name>>

C4_Pre ==
    /\ Present0 /\ params.state = "absent" /\ ~params.check_mode
    /\ params.host_access_policies = <<>>

\* C4 as claimed: resource present, state=absent, no host access policies
\* supplied, no check mode: exactly one delete call, no other mutating
\* call, changed=true
C4_DeleteOnce_Original == (Done /\ C4_Pre) => OneCall(DeleteApis)

\* C4 amended: the same, for invocations whose supplied references all
\* exist and that have no other validation error
C4_DeleteOnce == (Done /\ C4_Pre /\ RefsExist /\ LocallyValid) => OneCall(DeleteApis)

C4_Witness ==
    /\ Done /\ C4_Pre /\ RefsExist /\ LocallyValid /\ mod = "volume"
    /\ Given(params.storage_class)
    /\ Len(Mutations) = 1 /\ outcome = exit_json(TRUE) /\ ~remote.exists

\* index in calls of the first mutating call (0: none)
FirstMutation ==
    IF Mutations = <<>> THEN 0
    ELSE CHOOSE i \in DOMAIN calls :
            IsMutate(calls[i]) /\ \A j \in 1..(i - 1) : ~IsMutate(calls[j])

\* the existence checks the supplied references call for, as log entries
RequiredChecks ==
    IF mod = "volume"
    THEN (IF params.host_access_policies # <<>>
          THEN {Read("list_host_access_policies", None, TRUE)} ELSE {})
         \cup (IF Given(params.storage_class)
               THEN {Read("get_storage_class", params.storage_class, TRUE)} ELSE {})
         \cup (IF Given(params.placement_group)
               THEN {Read("get_placement_group", params.placement_group, TRUE)} ELSE {})
         \cup (IF Given(params.protection_policy)
               THEN {Read("get_protection_policy", params.protection_policy, TRUE)} ELSE {})
    ELSE {Read("get_availability_zone", params.availability_zone, TRUE)}
         \cup {Read("get_network_interface_group", g, TRUE) :
                  g \in Elems(params.network_interface_groups)}

\* C5: every existence check of a supplied reference has succeeded before
\* the first mutating call, and an invocation with a missing reference fails
\* without any mutating call
C5_ValidationPrecedesMutation ==
    /\ Mutations # <<>>
          => /\ RefsExist
             /\ \A r \in RequiredChecks : \E j \in 1..(FirstMutation - 1) : calls[j] = r
    /\ (Done /\ ~RefsExist) => (outcome.status = "failed" /\ Mutations = <<>>)

C5_Witness ==
    /\ mod = "volume" /\ Mutations # <<>> /\ Cardinality(RequiredChecks) = 4
    /\ FirstMutation > 4

\* the storage class whose limit applies to the requested size
ApplicableClass ==
    IF Given(params.storage_class) THEN params.storage_class ELSE remote0.storage_class

\* the invocation is a create or an update of a volume
CreateOrUpdate ==
    /\ mod = "volume"
    /\ \/ Absent0 /\ params.state = "present"
       \/ Present0 /\ (params.state = "present" \/ params.host_access_policies # <<>>)

\* C6: on create and update, a requested size above the limit of the
\* applicable storage class ends in a validation failure with no mutating
\* call, whether the size is larger than, equal to or smaller than the
\* observed one
C6_SizeLimitEnforced ==
    (Done /\ CreateOrUpdate /\ params.size # NoSize
          /\ parse_number_with_suffix(params.size) > size_limit(ApplicableClass))
        => (outcome.status = "failed" /\ Mutations = <<>>)

\* C7: in update_volume a failing patch ends the invocation at once: it is
\* the last call, no field is patched twice, nothing but patches is issued,
\* and the patches applied before it stay applied
C7_NoRetryNoRollback ==
    (mod = "volume" /\ branch = "update")
        => /\ \A i \in DOMAIN Mutations :
                /\ Mutations[i].api = "update_volume"
                /\ ~Mutations[i].ok
                      => (i = Len(Mutations) /\ Done /\ outcome.status = "failed")
                /\ Mutations[i].ok => <<remote[Mutations[i].field]>> = Mutations[i].value
                /\ \A j \in DOMAIN Mutations :
                      i # j => Mutations[i].field # Mutations[j].field

C7_Witness ==
    /\ mod = "volume" /\ branch = "update" /\ Done
    /\ Len(Mutations) = 3
    /\ Mutations[1].ok /\ Mutations[2].ok /\ ~Mutations[3].ok
    /\ Mutations[3].field = "size"

IsHapPatch(c) == IsMutate(c) /\ c.field = "host_access_policies"
HapPatches == SelectSeq(calls, IsHapPatch)

\* the set the claim expects the host access policy patch to carry
ExpectedHaps ==
    IF params.state = "present"
    THEN Elems(remote0.host_access_policies) \cup Elems(params.host_access_policies)
    ELSE Elems(remote0.host_access_policies) \ Elems(params.host_access_policies)

\* C8: update_volume issues at most one host access policy patch; it carries
\* the whole resulting list without duplicates: observed plus supplied with
\* state=present, observed minus supplied with state=absent; observed {a,b}
\* with {b,c} added gives {a,b,c} and with {b} removed gives {a}
C8_HapPatchIsResolvedSet ==
    mod = "volume"
        => /\ Len(HapPatches) <= 1
           /\ \A i \in DOMAIN HapPatches :
                LET v == HapPatches[i].value[1]
                IN  /\ Elems(v) = ExpectedHaps
                    /\ Len(v) = Cardinality(Elems(v))
           /\ (Done /\ outcome.status = "ok" /\ branch = "update" /\ ~params.check_mode
                    /\ remote0.host_access_policies = <<"a", "b">>)
                => /\ (params.state = "present"
                          /\ params.host_access_policies = <<"b", "c">>)
                      => (Len(HapPatches) = 1
                             /\ HapPatches[1].value = << <<"a", "b", "c">> >>)
                   /\ (params.state = "absent" /\ params.host_access_policies = <<"b">>)
                      => (Len(HapPatches) = 1 /\ HapPatches[1].value = << <<"a">> >>)

C8_Witness ==
    /\ mod = "volume" /\ Done /\ outcome = exit_json(TRUE)
    /\ params.state = "absent" /\ params.host_access_policies = <<"b">>
    /\ remote0.host_access_policies = <<"a", "b">>
    /\ remote.host_access_policies = <<"a">>
    /\ Len(HapPatches) = 1

\* the AnsibleModule accepts the parameters
ArgSpecOk ==
    (mod = "volume" /\ params.state = "present")
        => (Given(params.storage_class) /\ Given(params.placement_group))

\* every supplied field is already satisfied by the observed resource
AllSatisfied ==
    /\ params.display_name \in {None, remote0.display_name}
    /\ OthersSatisfied
    /\ IF params.state = "present"
       THEN Elems(params.host_access_policies)
                \subseteq Elems(remote0.host_access_policies)
       ELSE Elems(params.host_access_policies)
                \cap Elems(remote0.host_access_policies) = {}

\* the invocation is an update of a resource that exists
UpdateCase ==
    /\ Present0
    /\ \/ params.state = "present"
       \/ mod = "volume" /\ params.host_access_policies # <<>>

IsUpdate(c) == IsMutate(c) /\ c.api \in UpdateApis

\* C9: idempotence: an update whose supplied fields are all satisfied by the
\* observed state issues no update call and ends successfully with
\* changed=false (stated for the invocations the argument spec accepts and
\* whose supplied references all exist)
C9_Idempotent ==
    (Done /\ UpdateCase /\ AllSatisfied /\ ArgSpecOk /\ RefsExist)
        => (SelectSeq(calls, IsUpdate) = <<>> /\ outcome = exit_json(FALSE))

\* some patch call was issued and completed successfully
PatchApplied == \E i \in DOMAIN calls : IsUpdate(calls[i]) /\ calls[i].ok

IsDelete(c) == IsMutate(c) /\ c.api \in DeleteApis

\* C11: volume present, state=absent, host_access_policies supplied: the
\* update path is taken, no delete call is ever issued, the volume still
\* exists, and once the invocation has ended (outside check mode and without
\* a reported failure) none of the supplied policies is attached any more
C11_HapRemovalIsUpdate ==
    (mod = "volume" /\ Present0 /\ params.state = "absent"
         /\ params.host_access_policies # <<>>)
        => /\ SelectSeq(calls, IsDelete) = <<>>
           /\ remote.exists
           /\ branch \in {"none", "update"}
           /\ (Done /\ ~params.check_mode /\ outcome.status # "failed")
                 => Elems(params.host_access_policies)
                        \cap Elems(remote.host_access_policies) = {}

\* a mandatory field of creation is missing
MandatoryMissing ==
    IF mod = "volume"
    THEN params.size = NoSize \/ ~Given(params.storage_class)
            \/ ~Given(params.placement_group)
    ELSE params.addresses = <<>>

C13_MutationsAwaited ==
    \A i \in DOMAIN calls :
        IsMutate(calls[i])
            => /\ (i < Len(calls)) => calls[i + 1].kind = "await"
               /\ (Done /\ outcome = exit_json(TRUE))
                     => (i < Len(calls) /\ calls[i + 1].kind = "await" /\ calls[i + 1].ok)

\* C14: the documented rename (name=foo, rename=baz, state=absent, no host
\* access policies; foo exists, baz does not): no delete call for foo and
\* the volume still exists
C14_RenameDoesNotDelete ==
    (mod = "volume" /\ Present0 /\ params.state = "absent" /\ params.rename = "baz"
         /\ params.host_access_policies = <<>> /\ RefsExist)
        => (SelectSeq(calls, IsDelete) = <<>> /\ remote.exists)

\* the call carries host access policies: a patch of that field, or a
\* create body with that field
CarriesHaps(c) ==
    /\ IsMutate(c)
    /\ \/ c.field = "host_access_policies"
       \/ c.api = "create_volume" /\ "host_access_policies" \in DOMAIN c.value[1]

\* C15: a create with host_access_policies supplied reports changed=true
\* only after a successful mutating call that carries the policies
C15_CreateConnectsHaps ==
    (Done /\ mod = "volume" /\ branch = "create" /\ ~params.check_mode
          /\ params.host_access_policies # <<>> /\ outcome = exit_json(TRUE))
        => \E i \in DOMAIN calls : CarriesHaps(calls[i]) /\ calls[i].ok

\* C16: an invocation in check mode issues no mutating call in any branch
\* of either module, and leaves the remote resource as it was
C16_CheckModeIsReadOnly ==
    params.check_mode => (Mutations = <<>> /\ remote = remote0)

C16_Witness ==
    /\ params.check_mode /\ Done /\ mod = "volume" /\ branch = "update"
    /\ new # cur /\ params.host_access_policies # <<>>
    /\ outcome.status = "ok"

IsCreate(c) == IsMutate(c) /\ c.api \in CreateApis

\* C17: the display_name of a create call is the supplied display_name, or
\* the name when none is supplied
C17_CreateDisplayName ==
    \A i \in DOMAIN calls :
        IsCreate(calls[i])
            => calls[i].value[1].display_name
                  = (IF params.display_name = None THEN "foo" ELSE params.display_name)

C17_Witness ==
    /\ Done /\ mod = "se" /\ params.display_name = None
    /\ Len(Mutations) = 1 /\ IsCreate(Mutations[1])
    /\ remote.exists /\ remote.display_name = "foo"

ScalarFields == {"display_name", "storage_class", "placement_group", "protection_policy"}

\* C18: an update_volume that ends successfully outside check mode has
\* issued a patch of a scalar field exactly if the field is supplied and
\* differs from the observed value, and the patch carries the supplied value
C18_ScalarPatchIffDiffers ==
    (Done /\ mod = "volume" /\ branch = "update" /\ ~params.check_mode
          /\ outcome.status = "ok")
        => \A f \in ScalarFields :
              /\ (\E i \in DOMAIN Mutations : Mutations[i].field = f)
                    <=> (Given(params[f]) /\ params[f] # remote0[f])
              /\ \A i \in DOMAIN Mutations :
                    Mutations[i].field = f => Mutations[i].value = <<params[f]>>

\* the size the volume has after the invocation
FinalSize ==
    IF params.size # NoSize /\ parse_number_with_suffix(params.size) > remote0.size
    THEN parse_number_with_suffix(params.size) ELSE remote0.size

\* C19: whenever update_volume issues a storage_class patch, the size the
\* volume will have does not exceed the limit of the new storage class
C19_ClassChangeRespectsLimit ==
    mod = "volume"
        => \A i \in DOMAIN Mutations :
              Mutations[i].field = "storage_class"
                  => FinalSize <= size_limit(Mutations[i].value[1])

FieldRank(f) ==
    CASE f = "display_name" -> 1
      [] f = "storage_class" -> 2
      [] f = "size" -> 3
      [] f = "placement_group" -> 4
      [] f = "protection_policy" -> 5
      [] f = "host_access_policies" -> 6

\* the field is one the diff is to patch
ToPatch(f) ==
    IF f = "size" THEN FinalSize # remote0.size
    ELSE Given(params[f]) /\ params[f] # remote0[f]

\* C20: the patches of update_volume come in the order display_name,
\* storage_class, size, placement_group, protection_policy,
\* host_access_policies, one field per call and each field at most once; so
\* when the patch of field k fails, exactly the fields to patch that come
\* before k have been applied
C20_PatchOrder ==
    (mod = "volume" /\ branch = "update")
        => /\ \A i, j \in DOMAIN Mutations :
                i < j => FieldRank(Mutations[i].field) < FieldRank(Mutations[j].field)
           /\ \A k \in DOMAIN Mutations :
                ~Mutations[k].ok
                    => {Mutations[i].field : i \in 1..(k - 1)}
                          = {f \in ScalarFields \cup {"size"} :
                                ToPatch(f) /\ FieldRank(f) < FieldRank(Mutations[k].field)}

\* the same with placement_group left out of the fields to patch
PatchOrderButPlacementGroup ==
    (mod = "volume" /\ branch = "update")
        => \A k \in DOMAIN Mutations :
                ~Mutations[k].ok
                    => {Mutations[i].field : i \in 1..(k - 1)}
                          = {f \in (ScalarFields \cup {"size"}) \ {"placement_group"} :
                                ToPatch(f) /\ FieldRank(f) < FieldRank(Mutations[k].field)}

IsTargetRead(c) ==
    c.kind = "read" /\ c.api \in {"get_volume", "get_storage_endpoint"} /\ c.field = "foo"

\* the invocation died in the second lookup of the volume
RefetchCrash == outcome = Crashed("ApiException in update_volume")

\* every patch issued is one the state seen by main asks for
PatchesFromSnapshot ==
    \A i \in DOMAIN Mutations :
        (IsUpdate(Mutations[i]) /\ Mutations[i].field \in ScalarFields \cup {"size"})
            => ToPatch(Mutations[i].field)

\* C21: the target is looked up at most once per invocation, and what another
\* client does to it after that lookup neither changes the fields patched
\* nor ends the invocation in an unhandled error
C21_SingleSnapshot ==
    /\ Len(SelectSeq(calls, IsTargetRead)) <= 1
    /\ ~RefetchCrash
    /\ PatchesFromSnapshot

DependencyApis ==
    {"get_storage_class", "get_placement_group", "get_protection_policy",
     "list_host_access_policies", "get_availability_zone", "get_network_interface_group"}

\* a lookup of the invocation failed for a reason other than "not found"
FaultHit ==
    \E i \in DOMAIN calls :
        /\ calls[i].kind = "read"
        /\ \/ fault = "target" /\ calls[i].api \in {"get_volume", "get_storage_endpoint"}
           \/ fault = "dependency" /\ calls[i].api \in DependencyApis

\* C22: once a lookup failed for a reason other than "not found", no create
\* call is issued and the invocation ends in an error
C22_LookupFailureIsFatal ==
    FaultHit => /\ SelectSeq(calls, IsCreate) = <<>>
                /\ Done => outcome.status \in {"failed", "crashed"}

\* the rename target exists, or an address is not a network
LocallyInvalid ==
    IF mod = "volume"
    THEN Given(params.rename) /\ params.rename \in OtherVolumes
    ELSE ~(Elems(params.addresses) \subseteq ValidNetworks)

\* C23: an existing rename target (fusion_volume) or an address that is not
\* a network (fusion_se) ends the invocation in failure with no mutating
\* call, whatever the state and whether or not the target exists
C23_LocalValidationPrecedesMutation ==
    LocallyInvalid => /\ Mutations = <<>>
                      /\ remote = remote0
                      /\ Done => outcome.status = "failed"

C23_Witness ==
    /\ Done /\ mod = "volume" /\ params.rename = "bar" /\ params.state = "absent"
    /\ Present0 /\ ~params.check_mode /\ RefsExist
    /\ outcome = fail_json("Target volume name already exists")

\* the lookups of the categories of references that are supplied and missing
MissingLookups ==
    IF mod = "volume"
    THEN (IF Elems(params.host_access_policies) \subseteq HostAccessPolicies
          THEN {} ELSE {"list_host_access_policies"})
         \cup (IF Given(params.storage_class) /\ params.storage_class \notin StorageClasses
               THEN {"get_storage_class"} ELSE {})
         \cup (IF Given(params.placement_group)
                    /\ params.placement_group \notin PlacementGroups
               THEN {"get_placement_group"} ELSE {})
         \cup (IF Given(params.protection_policy)
                    /\ params.protection_policy \notin ProtectionPolicies
               THEN {"get_protection_policy"} ELSE {})
    ELSE (IF params.availability_zone \in AvailabilityZones
          THEN {} ELSE {"get_availability_zone"})
         \cup (IF Elems(params.network_interface_groups) \subseteq NetworkInterfaceGroups
               THEN {} ELSE {"get_network_interface_group"})

\* C24: when references of more than one category are missing, every one of
\* these categories has been looked up by the time the invocation fails
C24_ValidationIsExhaustive ==
    (Done /\ LocallyValid /\ Cardinality(MissingLookups) >= 2
          /\ (mod = "volume"
                 => Given(params.storage_class) /\ Given(params.placement_group)))
        => \A api \in MissingLookups : \E i \in DOMAIN calls : calls[i].api = api

IsSizePatch(c) == IsUpdate(c) /\ c.field = "size"

\* a size below the observed one is asked for
Shrink ==
    /\ mod = "volume" /\ Present0 /\ params.size # NoSize
    /\ parse_number_with_suffix(params.size) < remote0.size

\* C25: a size patch carries a size above the observed one; when a smaller
\* size is asked for no size patch is issued, and if nothing else is to be
\* patched the invocation ends successfully with changed=false
C25_NeverShrinks ==
    /\ \A i \in DOMAIN calls :
          IsSizePatch(calls[i]) => calls[i].value[1] > remote0.size
    /\ Shrink => SelectSeq(calls, IsSizePatch) = <<>>
    /\ (Done /\ Shrink /\ branch = "update" /\ params.host_access_policies = <<>>
             /\ \A f \in ScalarFields : ~ToPatch(f))
          => (outcome = exit_json(FALSE) /\ Mutations = <<>>)

C25_Witness ==
    /\ Done /\ Shrink /\ branch = "update" /\ ~params.check_mode
    /\ params.host_access_policies = <<>> /\ \A f \in ScalarFields : ~ToPatch(f)
    /\ outcome = exit_json(FALSE)

\* the changed value of the invocation without check mode, all of whose
\* remote calls succeed
WouldChange ==
    CASE branch \in {"create", "delete"} -> TRUE
      [] branch = "update" /\ mod = "se" -> ToPatch("display_name")
      [] branch = "update" /\ mod = "volume" ->
            \/ \E f \in {"display_name", "storage_class", "size", "protection_policy"} :
                   ToPatch(f)
            \/ /\ params.host_access_policies # <<>>
               /\ ExpectedHaps # Elems(remote0.host_access_policies)
      [] OTHER -> FALSE

\* the invocation without check mode reports WouldChange
RealRunReportsWouldChange ==
    (Done /\ ~params.check_mode /\ outcome.status = "ok"
          /\ \A i \in DOMAIN calls : calls[i].kind # "read" => calls[i].ok)
        => outcome.changed = WouldChange

\* C26: a check-mode invocation that ends successfully reports the changed
\* value the same invocation without check mode reports when all of its
\* remote calls succeed
C26_CheckModePredicts ==
    (Done /\ params.check_mode /\ outcome.status = "ok")
        => outcome.changed = WouldChange

\* the most remote calls one invocation issues: the lookups of main, the two
\* lookups of update_volume and the six patches
MaxCalls == 14

MutationKinds ==
    {k \in {"create", "update", "delete"} :
        \E i \in DOMAIN Mutations :
            Mutations[i].api \in (CASE k = "create" -> CreateApis
                                    [] k = "update" -> UpdateApis
                                    [] k = "delete" -> DeleteApis)}

OneKindBounded ==
    /\ Len(calls) <= MaxCalls
    /\ Done <=> outcome.status # "running"
    /\ Cardinality(MutationKinds) <= 1
    /\ Len(SelectSeq(calls, IsCreate)) <= 1
    /\ Len(SelectSeq(calls, IsDelete)) <= 1
    /\ Len(SelectSeq(calls, IsUpdate)) <= (IF mod = "volume" THEN 6 ELSE 1)

\* how far the invocation has come
PcRank ==
    CASE pc = "main" -> 0
      [] pc = "dispatch" -> 1
      [] pc \in {"create_volume", "update_volume", "delete_volume",
                 "create_se", "update_se", "delete_se"} -> 2
      [] pc = "patch_display_name" -> 3
      [] pc = "patch_storage_class" -> 4
      [] pc = "patch_size" -> 5
      [] pc = "patch_placement_group" -> 6
      [] pc = "patch_protection_policy" -> 7
      [] pc = "patch_host_access_policies" -> 8
      [] pc = "done" -> 9

\* an invocation that has not ended is at a step of its own module, which
\* it can take: a step is enabled by mod and pc alone
CanStep ==
    ~Done =>
        IF mod = "volume"
        THEN pc \in {"main", "dispatch", "create_volume", "update_volume",
                     "delete_volume", "patch_display_name", "patch_storage_class",
                     "patch_size", "patch_placement_group", "patch_protection_policy",
                     "patch_host_access_policies"}
        ELSE pc \in {"main", "dispatch", "create_se", "update_se", "delete_se"}

\* C27: every invocation reaches its one terminal outcome after a bounded
\* number of remote calls (it is never stuck before its end and every step
\* brings it nearer to it), and its mutating calls are of one kind: at most
\* one create, or at most one delete, or at most six patches (fusion_volume)
\* or one patch (fusion_se)
C27_TerminatesWithOneKind ==
    [](OneKindBounded /\ CanStep) /\ [][PcRank' > PcRank]_vars

C27_Witness ==
    /\ Done /\ mod = "volume" /\ outcome = exit_json(TRUE)
    /\ Len(SelectSeq(calls, IsUpdate)) >= 4

====
